---- MODULE Spec2Model ----
(***************************************************************************)
(* JPDBImport: the import dialog of the add-on (src/__init_.py).           *)
(*                                                                         *)
(* The dialog's two handlers are load_jpdb_decks ("Refresh Decks") and     *)
(* import_cards ("Import Cards").  import_cards blocks on the remote calls *)
(* made by JPDBClient.get_deck_cards and then writes one note per resolved *)
(* record into the collection.  The handler's position is pc; the remote   *)
(* service and the collection are the environment, whose answers are       *)
(* chosen nondeterministically at the step that asks for them.             *)
(*                                                                         *)
(* Texts typed into line edits are sequences of tokens, " " being          *)
(* whitespace, so that str.strip() is computed.  JSON null is JNull, a    *)
(* JSON array is Arr(s).                                                   *)
(***************************************************************************)
EXTENDS Integers, Sequences, FiniteSets, TLC

VARIABLES
    \* ---- dialog widgets and fields (JPDBImportDialog) ----
    api_key_input,      \* text of the API key line edit
    anki_deck_input,    \* text of the Anki deck line edit
    note_type_combo,    \* items of the note type combo (names)
    note_type_current,  \* currentText() of the note type combo
    jpdb_deck_combo,    \* items of the JPDB deck combo: [text, data]
    jpdb_client,        \* <<>> for None, <<api_key>> for JPDBClient(api_key)
    config,             \* JPDBConfig: [api_key, deck_name, note_type]
    warning,            \* kind of the last message shown to the user
    \* ---- the collection (mw.col) ----
    models,             \* names of the note types in the collection
    decks,              \* deck names; a deck's id is its position
    notes,              \* notes added: [fields, did]
    \* ---- the run of import_cards in progress ----
    pc,                 \* position of the handler
    deck_name,          \* local deck_name (stripped)
    limit,              \* parameter limit of get_deck_cards
    batch_size,         \* parameter batch_size of get_deck_cards
    vocab_list,         \* local vocab_list of get_deck_cards (after truncation)
    i,                  \* loop variable of the chunk loop (0-based offset)
    cards,              \* local cards
    deck_id_anki,       \* local deck_id_anki
    note_type,          \* local note_type: <<>> for None, <<name>> otherwise
    imported,           \* local imported (Unbound before line 269)
    skipped,            \* local skipped (Unbound before line 270)
    pos,                \* number of records of cards the for loop has consumed
    error,              \* kind of the exception caught at line 325, "" if none
    \* ---- history of the run (observation only) ----
    raw_list,           \* the list deck/list-vocabulary returned to get_deck_cards
    listed,             \* number of deck/list-vocabulary calls issued
    lookups,            \* lookup-vocabulary calls issued, in order
    last_pairs,         \* the list sent by the latest lookup-vocabulary call
    last_body,          \* the body of the latest lookup-vocabulary response
    ensured,            \* number of mw.col.decks.id calls
    written,            \* number of notes this run added
    refreshed,          \* mw.col.reset(); mw.reset() was called
    tokens              \* bearer tokens carried by the requests issued so far

vars == << api_key_input, anki_deck_input, note_type_combo, note_type_current,
           jpdb_deck_combo, jpdb_client, config, warning, models, decks, notes,
           pc, deck_name, limit, batch_size, vocab_list, i, cards,
           deck_id_anki, note_type, imported, skipped, pos, error,
           raw_list, listed, lookups, last_pairs, last_body, ensured, written,
           refreshed, tokens >>

dialogVars == << api_key_input, anki_deck_input, note_type_combo,
                 note_type_current, jpdb_deck_combo, jpdb_client >>
runLocals == << deck_name, limit, batch_size, vocab_list, i, cards,
                deck_id_anki, note_type, imported, skipped, pos, error >>
runHistory == << raw_list, listed, lookups, last_pairs, last_body, ensured,
                written, refreshed >>

----------------------------------------------------------------------------
(* Bounds of the model *)

\* longest list the deck/list-vocabulary endpoint returns
MaxVocab == 2
\* most records the lookup responses of one run return in total
MaxCards == 3
\* most notes the collection holds: an import starts only while the
\* collection has room for the notes the run may add
MaxNotes == MaxCards

(* Program constants *)

\* default of parameter limit
DefaultLimit == 1000
\* default of parameter batch_size
DefaultBatch == 100
\* "not yet assigned" for an integer local
Unbound == 0 - 1

----------------------------------------------------------------------------
(* Values *)

Min(a, b) == IF a <= b THEN a ELSE b

SeqsUpTo(S, n) == UNION {[1..k -> S] : k \in 0..n}

JNull == [null |-> TRUE, arr |-> <<>>]
Arr(s) == [null |-> FALSE, arr |-> s]

\* Python truthiness of a JSON value that is null or an array
Truthy(v) == ~v.null /\ Len(v.arr) > 0

\* str.strip() on a text: leading and trailing whitespace tokens removed
RECURSIVE LStrip(_)
LStrip(t) == IF t # <<>> /\ Head(t) = " " THEN LStrip(Tail(t)) ELSE t
RECURSIVE RStrip(_)
RStrip(t) ==
    IF t # <<>> /\ t[Len(t)] = " " THEN RStrip(SubSeq(t, 1, Len(t) - 1)) ELSE t
Strip(t) == RStrip(LStrip(t))

\* texts the user may type as API key / Anki deck name
KeyTexts == {<<>>, <<" ", "key">>}
DefaultDeckName == <<"JPDB", " ", "Import">>
DeckTexts == {<<" ">>, DefaultDeckName}

\* note types the collection may hold, with their number of fields; the
\* collection is either empty or holds both
FieldCount(name) ==
    CASE name = "Single" -> 1
      [] name = "Triple" -> 3
AllNoteTypes == <<"Single", "Triple">>
ModelSets == {{}, {"Single", "Triple"}}

\* answers of the list-user-decks endpoint: the decks array
DeckLists == {<<>>, << <<7>> >>, << <<7, "Core">> >>}

\* entries of a deck's vocabulary list
IdEntries == {<<>>, <<5>>, <<5, 9>>, <<5, 9, 99>>}
VocabLists == SeqsUpTo(IdEntries, MaxVocab)

\* the values of limit and batch_size the model runs get_deck_cards with:
\* the defaults of the source and values small enough to truncate and to
\* split the lists of the model
Limits == {0, 1, DefaultLimit}
BatchSizes == {1, DefaultBatch}

\* records of a vocabulary_info array: [spellings, readings, meanings]
RecShort == Arr(<< <<"neko">> >>)
RecNoSpelling == Arr(<< <<>>, <<"yomi">>, <<"void">> >>)
RecFull == Arr(<< <<"tabe", "kuu">>, <<"taberu">>, <<"to eat", "to dine">> >>)
\* the records the service answers with: one for each way the loop over the
\* records treats a record
Records == {JNull, RecShort, RecNoSpelling, RecFull}

\* records whose reading equals the spelling, whose reading sequence is
\* empty, or whose reading sequence starts with an empty string
RecKana == Arr(<< <<"kana">>, <<"kana">>, <<"kana script">> >>)
RecNoReading == Arr(<< <<"neko">>, <<>>, <<"cat">> >>)
RecBlankReading == Arr(<< <<"inu">>, <<"">>, <<"dog">> >>)
\* the records the loop over cards is run on by itself
WritingRecords == Records \cup {RecKana, RecNoReading, RecBlankReading}

\* a JSON mapping without keys
EmptyMapping == [k \in {} |-> <<>>]

----------------------------------------------------------------------------
(* JPDBClient *)

\* outcome of _make_request: the decoded body, or an exception raised
Raised == [ok |-> FALSE, body |-> EmptyMapping]
Returned(b) == [ok |-> TRUE, body |-> b]

\* the Authorization header _make_request sends for a client
Bearer(client) == client[1]

\* get_deck_list: the decks array of the response
get_deck_list(result) == result.decks

\* list_deck_vocabulary: the vocabulary array of the response
list_deck_vocabulary(result) == result.vocabulary

\* faulty variant of lookup_vocabulary: the array is returned back to front
lookup_vocabulary_reversed(result) ==
    IF "vocabulary_info" \in DOMAIN result
    THEN [k \in 1..Len(result.vocabulary_info) |->
             result.vocabulary_info[Len(result.vocabulary_info) + 1 - k]]
    ELSE <<>>

\* lookup_vocabulary: the vocabulary_info array, [] when the key is absent
lookup_vocabulary(result) ==
    IF "vocabulary_info" \in DOMAIN result THEN result.vocabulary_info ELSE <<>>

\* faulty variant of Truncate: the limit is not applied
TruncateNone(list, n) == list

\* vocab_list[:limit]
Truncate(list, n) == SubSeq(list, 1, Min(n, Len(list)))

\* faulty variant of Batch: the slice runs to the end of the list
BatchWhole(list, off, size) == SubSeq(list, off + 1, Len(list))

\* faulty variant of Batch: the slice ends one entry late
BatchOverlap(list, off, size) ==
    SubSeq(list, off + 1, Min(off + size + 1, Len(list)))

\* vocab_list[i:i + batch_size]
Batch(list, off, size) == SubSeq(list, off + 1, Min(off + size, Len(list)))

\* faulty variant of IdPair: the entry is sent as it came
IdPairRaw(vocab_ids) == vocab_ids

\* the [vid, sid] pair sent for a non-empty entry
IdPair(vocab_ids) ==
    IF Len(vocab_ids) = 1
    THEN <<vocab_ids[1], vocab_ids[1]>>
    ELSE <<vocab_ids[1], vocab_ids[2]>>

\* faulty variant of ValidBatch: an empty entry is sent as an empty pair
ValidBatchUnfiltered(batch) ==
    [k \in 1..Len(batch) |->
        IF batch[k] = <<>> THEN <<>> ELSE IdPair(batch[k])]

\* valid_batch: the pairs of the entries of batch that pass the test of
\* line 111, in order
ValidBatch(batch) ==
    LET kept == SelectSeq(batch, LAMBDA vocab_ids : Len(vocab_ids) >= 1)
    IN  [k \in 1..Len(kept) |-> IdPair(kept[k])]

\* 1-based number of the chunk that starts at offset off
ChunkNo(off, size) == (off \div size) + 1

\* what the service may answer to each endpoint
DeckListOutcomes == {Raised} \cup {Returned([decks |-> d]) : d \in DeckLists}
VocabularyOutcomes ==
    {Raised} \cup {Returned([vocabulary |-> v]) : v \in VocabLists}
LookupOutcomes(n) ==
    {Raised, Returned(EmptyMapping)}
        \cup {Returned([vocabulary_info |-> r]) : r \in SeqsUpTo(Records, n)}

----------------------------------------------------------------------------
(* The collection *)

\* position of name in decks, 0 if absent
RECURSIVE DeckIndex(_, _)
DeckIndex(ds, name) ==
    IF ds = <<>> THEN 0
    ELSE IF ds[Len(ds)] = name /\ DeckIndex(SubSeq(ds, 1, Len(ds) - 1), name) = 0
         THEN Len(ds)
         ELSE DeckIndex(SubSeq(ds, 1, Len(ds) - 1), name)

\* faulty variant of DeckId: the id of the default deck whatever the name
DeckIdDefault(ds, name) == 1

\* mw.col.decks.id(name): the decks after get-or-create, and the id returned
DecksAfterId(ds, name) == IF DeckIndex(ds, name) = 0 THEN Append(ds, name) ELSE ds
DeckId(ds, name) == DeckIndex(DecksAfterId(ds, name), name)

\* mw.col.models.by_name(name): <<>> for None
ByName(ms, name) == IF name \in ms THEN <<name>> ELSE <<>>

\* Note(mw.col, note_type).fields: one empty string per field
NewFields(nt) == [k \in 1..FieldCount(nt[1]) |-> ""]

----------------------------------------------------------------------------
(* Field mapping of import_cards, lines 290-310 *)

\* ', '.join([str(m) for m in meanings_arr])
RECURSIVE Join(_)
Join(ms) ==
    IF ms = <<>> THEN ""
    ELSE IF Len(ms) = 1 THEN ms[1]
    ELSE ms[1] \o ", " \o Join(Tail(ms))

Spelling(spelling_arr) == IF spelling_arr # <<>> THEN spelling_arr[1] ELSE ""
Reading(reading_arr) == IF reading_arr # <<>> THEN reading_arr[1] ELSE ""
MeaningText(meanings_arr) == IF meanings_arr # <<>> THEN Join(meanings_arr) ELSE ""

\* faulty variant of Front: an empty reading is not told from a reading
FrontNoEmptyCheck(spelling, reading) ==
    IF reading # spelling
    THEN spelling \o " (" \o reading \o ")"
    ELSE spelling

\* lines 304-307: the reading is appended when it is non-empty and differs
Front(spelling, reading) ==
    IF reading # "" /\ reading # spelling
    THEN spelling \o " (" \o reading \o ")"
    ELSE spelling

\* faulty variant of FilledFields: front and meanings change places
FilledFieldsSwapped(fields, card) ==
    LET spelling == Spelling(card[1])
        reading == Reading(card[2])
        meaning_text == MeaningText(card[3])
    IN  IF Len(fields) >= 2
        THEN [fields EXCEPT ![1] = meaning_text, ![2] = Front(spelling, reading)]
        ELSE [fields EXCEPT ![1] = meaning_text]

\* the fields of the note written for a record with three sub-arrays
FilledFields(fields, card) ==
    LET spelling == Spelling(card[1])
        reading == Reading(card[2])
        meaning_text == MeaningText(card[3])
    IN  IF Len(fields) >= 2
        THEN [fields EXCEPT ![1] = Front(spelling, reading), ![2] = meaning_text]
        ELSE [fields EXCEPT ![1] = spelling]

----------------------------------------------------------------------------
(* Initial state: the dialog as constructed, no configuration file *)

\* the locals and the history of a handler that is not running
NoRun ==
    /\ deck_name = <<>>
    /\ limit = DefaultLimit
    /\ batch_size = DefaultBatch
    /\ vocab_list = <<>>
    /\ i = 0
    /\ cards = <<>>
    /\ deck_id_anki = 0
    /\ note_type = <<>>
    /\ imported = Unbound
    /\ skipped = Unbound
    /\ pos = 0
    /\ error = ""
    /\ raw_list = <<>>
    /\ listed = 0
    /\ lookups = <<>>
    /\ last_pairs = <<>>
    /\ last_body = EmptyMapping
    /\ ensured = 0
    /\ written = 0
    /\ refreshed = FALSE

\* load_note_types: one combo item per note type of the collection
NoteTypeItems(ms) == SelectSeq(AllNoteTypes, LAMBDA n : n \in ms)

\* load_settings: the configured note type if the combo has it, else the
\* combo's first item, "" for an empty combo
CurrentAfterLoad(items, configured) ==
    IF \E k \in 1..Len(items) : items[k] = configured THEN configured
    ELSE IF items # <<>> THEN items[1] ELSE ""

Init ==
    /\ config = [api_key |-> <<>>, deck_name |-> DefaultDeckName, note_type |-> "Basic"]
    /\ models \in ModelSets
    /\ decks = << <<"Default">> >>
    /\ notes = <<>>
    /\ jpdb_client = <<>>
    /\ jpdb_deck_combo = <<>>
    /\ note_type_combo = NoteTypeItems(models)
    /\ note_type_current = CurrentAfterLoad(note_type_combo, config.note_type)
    /\ api_key_input = config.api_key
    /\ anki_deck_input = config.deck_name
    /\ warning = ""
    /\ tokens = {}
    /\ pc = "idle"
    /\ NoRun

----------------------------------------------------------------------------
(* The user edits the widgets; only while no handler runs *)

EditApiKey ==
    /\ pc = "idle"
    /\ \E t \in KeyTexts : t # api_key_input /\ api_key_input' = t
    /\ UNCHANGED << anki_deck_input, note_type_combo, note_type_current,
                    jpdb_deck_combo, jpdb_client, config, warning, models,
                    decks, notes, pc, runLocals, runHistory, tokens >>

EditAnkiDeck ==
    /\ pc = "idle"
    /\ \E t \in DeckTexts : t # anki_deck_input /\ anki_deck_input' = t
    /\ UNCHANGED << api_key_input, note_type_combo, note_type_current,
                    jpdb_deck_combo, jpdb_client, config, warning, models,
                    decks, notes, pc, runLocals, runHistory, tokens >>

SelectNoteType ==
    /\ pc = "idle"
    /\ \E k \in 1..Len(note_type_combo) :
          /\ note_type_combo[k] # note_type_current
          /\ note_type_current' = note_type_combo[k]
    /\ UNCHANGED << api_key_input, anki_deck_input, note_type_combo,
                    jpdb_deck_combo, jpdb_client, config, warning, models,
                    decks, notes, pc, runLocals, runHistory, tokens >>

----------------------------------------------------------------------------
(* load_jpdb_decks *)

\* the combo items for the decks array: entries shorter than [id, name] skipped
RECURSIVE ComboItems(_)
ComboItems(ds) ==
    IF ds = <<>> THEN <<>>
    ELSE IF Len(Head(ds)) < 2
         THEN ComboItems(Tail(ds))
         ELSE <<[data |-> Head(ds)[1], text |-> Head(ds)[2]]>> \o ComboItems(Tail(ds))

\* faulty variant of LoadJpdbDecks: the API key is not tested for emptiness
LoadJpdbDecksUnchecked ==
    /\ pc = "idle"
    /\ \E out \in DeckListOutcomes :
          /\ jpdb_client' = <<Strip(api_key_input)>>
          /\ tokens' = tokens \cup {Bearer(jpdb_client')}
          /\ IF out.ok
             THEN /\ jpdb_deck_combo' = ComboItems(get_deck_list(out.body))
                  /\ warning' = "decks_loaded"
             ELSE /\ jpdb_deck_combo' = <<>>
                  /\ warning' = "load_failed"
    /\ UNCHANGED << api_key_input, anki_deck_input, note_type_combo,
                    note_type_current, config, models, decks, notes, pc,
                    runLocals, runHistory >>

\* lines 210-234: the API key is tested, the combo cleared, the client
\* created, the decks of the answer added to the combo
LoadJpdbDecks ==
    /\ pc = "idle"
    /\ LET api_key == Strip(api_key_input)
       IN  IF api_key = <<>>
           THEN /\ warning' = "enter_api_key"
                /\ UNCHANGED << jpdb_client, jpdb_deck_combo, tokens >>
           ELSE \E out \in DeckListOutcomes :
                   /\ jpdb_client' = <<api_key>>
                   /\ tokens' = tokens \cup {Bearer(jpdb_client')}
                   /\ IF out.ok
                      THEN /\ jpdb_deck_combo' = ComboItems(get_deck_list(out.body))
                           /\ warning' = "decks_loaded"
                      ELSE /\ jpdb_deck_combo' = <<>>
                           /\ warning' = "load_failed"
    /\ UNCHANGED << api_key_input, anki_deck_input, note_type_combo,
                    note_type_current, config, models, decks, notes, pc,
                    runLocals, runHistory >>

----------------------------------------------------------------------------
(* import_cards *)

\* save_settings
SavedConfig ==
    [api_key |-> Strip(api_key_input),
     deck_name |-> Strip(anki_deck_input),
     note_type |-> note_type_current]

\* lines 237-251: the two early returns, then save_settings
ImportCards ==
    /\ pc = "idle"
    /\ Len(notes) + MaxCards <= MaxNotes
    /\ IF Len(jpdb_deck_combo) = 0
       THEN /\ warning' = "load_decks_first"
            /\ pc' = "invalid"
            /\ UNCHANGED << config, deck_name, limit, batch_size >>
       ELSE IF Strip(anki_deck_input) = <<>>
       THEN /\ warning' = "enter_deck_name"
            /\ pc' = "invalid"
            /\ UNCHANGED << config, deck_name, limit, batch_size >>
       ELSE /\ config' = SavedConfig
            /\ deck_name' = Strip(anki_deck_input)
            /\ limit' \in Limits
            /\ batch_size' \in BatchSizes
            /\ warning' = "starting_import"
            /\ pc' = "list"
    /\ UNCHANGED << dialogVars, models, decks, notes, vocab_list, i, cards,
                    deck_id_anki, note_type, imported, skipped, pos, error,
                    runHistory, tokens >>

\* lines 325-327: the exception is caught and reported
Abort(kind) ==
    /\ pc' = "error"
    /\ error' = kind
    /\ warning' = "import_failed"

\* get_deck_cards, lines 98-104: the list is fetched and truncated
ListDeckVocabulary ==
    /\ pc = "list"
    /\ IF jpdb_client = <<>>
       THEN /\ Abort("AttributeError")
            /\ UNCHANGED << vocab_list, raw_list, listed, tokens >>
       ELSE \E out \in VocabularyOutcomes :
               /\ listed' = listed + 1
               /\ tokens' = tokens \cup {Bearer(jpdb_client)}
               /\ IF out.ok
                  THEN /\ raw_list' = list_deck_vocabulary(out.body)
                       /\ vocab_list' = Truncate(list_deck_vocabulary(out.body), limit)
                       /\ pc' = "lookup"
                       /\ UNCHANGED << error, warning >>
                  ELSE /\ Abort("RemoteError")
                       /\ UNCHANGED << vocab_list, raw_list >>
    /\ UNCHANGED << dialogVars, config, models, decks, notes, deck_name, limit,
                    batch_size, i, cards, deck_id_anki, note_type, imported,
                    skipped, pos, lookups, last_pairs, last_body, ensured, written,
                    refreshed >>

\* a lookup-vocabulary call as the history records it
Call(off, valid_batch, out) ==
    [chunk |-> ChunkNo(off, batch_size),
     sent |-> Len(valid_batch),
     ok |-> out.ok,
     returned |-> IF out.ok THEN Len(lookup_vocabulary(out.body)) ELSE 0]

\* the chunks of the loop at line 105, from offset off on:
\* vocab_list[off:off + size] for off in range(off, len(vocab_list), size)
RECURSIVE Chunks(_, _, _)
Chunks(list, off, size) ==
    IF off >= Len(list) THEN <<>>
    ELSE <<Batch(list, off, size)>> \o Chunks(list, off + size, size)

\* faulty variant of LookupRaised: the failure is swallowed and the chunk tried again
LookupRaisedRetry == UNCHANGED << pc, error, warning, cards, i >>

\* faulty variant of LookupRaised: the loop ends and the records so far are returned
LookupRaisedPartial ==
    /\ i' = Len(vocab_list)
    /\ UNCHANGED << pc, error, warning, cards >>

\* faulty variant of LookupRaised: the failed chunk is left out and the loop
\* goes on
LookupRaisedSkip ==
    /\ i' = i + batch_size
    /\ UNCHANGED << pc, error, warning, cards >>

\* lookup_vocabulary raised: get_deck_cards does not catch it, import_cards
\* reports it
LookupRaised ==
    /\ Abort("RemoteError")
    /\ UNCHANGED << cards, i >>

\* get_deck_cards, lines 105-120: one iteration of the chunk loop
LookupChunk ==
    /\ pc = "lookup"
    /\ i < Len(vocab_list)
    /\ LET batch == Batch(vocab_list, i, batch_size)
           valid_batch == ValidBatch(batch)
       IN  IF valid_batch = <<>>
           THEN /\ i' = i + batch_size
                /\ UNCHANGED << cards, lookups, last_pairs, last_body, tokens, pc, error,
                                warning >>
           ELSE \E out \in LookupOutcomes(
                              Min(Len(valid_batch) + 1, MaxCards - Len(cards))) :
                   /\ lookups' = Append(lookups, Call(i, valid_batch, out))
                   /\ last_pairs' = valid_batch
                   /\ last_body' = out.body
                   /\ tokens' = tokens \cup {Bearer(jpdb_client)}
                   /\ IF out.ok
                      THEN /\ cards' = cards \o lookup_vocabulary(out.body)
                           /\ i' = i + batch_size
                           /\ UNCHANGED << pc, error, warning >>
                      ELSE LookupRaised
    /\ UNCHANGED << dialogVars, config, models, decks, notes, deck_name, limit,
                    batch_size, vocab_list, deck_id_anki, note_type, imported,
                    skipped, pos, raw_list, listed, ensured, written, refreshed >>

\* line 122 and lines 257-270: get_deck_cards returns cards (its parameters
\* and locals are gone), the deck is obtained, the note type is looked up,
\* the counters are initialised
ResolveReturn ==
    /\ pc = "lookup"
    /\ i >= Len(vocab_list)
    /\ decks' = DecksAfterId(decks, deck_name)
    /\ deck_id_anki' = DeckId(decks, deck_name)
    /\ ensured' = ensured + 1
    /\ note_type' = ByName(models, note_type_current)
    /\ IF note_type' = <<>>
       THEN /\ warning' = "note_type_not_found"
            /\ pc' = "invalid"
            /\ UNCHANGED << imported, skipped >>
       ELSE /\ imported' = 0
            /\ skipped' = 0
            /\ pc' = "write"
            /\ UNCHANGED warning
    /\ limit' = DefaultLimit
    /\ batch_size' = DefaultBatch
    /\ vocab_list' = <<>>
    /\ i' = 0
    /\ raw_list' = <<>>
    /\ last_pairs' = <<>>
    /\ last_body' = EmptyMapping
    /\ UNCHANGED << dialogVars, config, models, notes, deck_name, cards, pos,
                    error, listed, lookups, written, refreshed, tokens >>

\* faulty variant of SkipRecord: the record is passed over without being counted
SkipRecordUncounted ==
    /\ pos' = pos + 1
    /\ UNCHANGED << skipped, imported, notes, written, pc, error, warning >>

\* lines 276-278 and 286-288: the record is counted as skipped
SkipRecord ==
    /\ skipped' = skipped + 1
    /\ pos' = pos + 1
    /\ UNCHANGED << imported, notes, written, pc, error, warning >>

\* faulty variant of AddNoteRaised: the notes the run wrote are taken back
AddNoteRaisedRollback ==
    /\ Abort("StoreError")
    /\ notes' = SubSeq(notes, 1, Len(notes) - written)
    /\ UNCHANGED << imported, skipped, pos, written >>

\* mw.col.addNote raised: nothing is undone, import_cards reports it
AddNoteRaised ==
    /\ Abort("StoreError")
    /\ UNCHANGED << imported, skipped, pos, notes, written >>

\* lines 273-314: one iteration of the loop over cards; mw.col.addNote may raise
WriteRecord ==
    /\ pc = "write"
    /\ pos < Len(cards)
    /\ LET card_data == cards[pos + 1]
       IN  IF ~Truthy(card_data)
           THEN SkipRecord
           ELSE IF Len(card_data.arr) < 3
           THEN /\ Abort("IndexError")
                /\ UNCHANGED << imported, skipped, pos, notes, written >>
           ELSE IF card_data.arr[1] = <<>>
           THEN SkipRecord
           ELSE \/ /\ notes' = Append(notes,
                                  [fields |-> FilledFields(NewFields(note_type),
                                                           card_data.arr),
                                   did |-> deck_id_anki])
                   /\ written' = written + 1
                   /\ imported' = imported + 1
                   /\ pos' = pos + 1
                   /\ UNCHANGED << skipped, pc, error, warning >>
                \/ AddNoteRaised
    /\ UNCHANGED << dialogVars, config, models, decks, deck_name, limit,
                    batch_size, vocab_list, i, cards, deck_id_anki, note_type,
                    raw_list, listed, lookups, last_pairs, last_body, ensured, refreshed,
                    tokens >>

\* faulty variant of Finish: the reset does not wait for the end of the loop
FinishEarly ==
    /\ pc = "write"
    /\ refreshed' = TRUE
    /\ warning' = "import_complete"
    /\ pc' = "done"
    /\ UNCHANGED << dialogVars, config, models, decks, notes, runLocals,
                    raw_list, listed, lookups, last_pairs, last_body, ensured, written,
                    tokens >>

\* lines 316-323: the collection is reset and the result reported
Finish ==
    /\ pc = "write"
    /\ pos = Len(cards)
    /\ refreshed' = TRUE
    /\ warning' = "import_complete"
    /\ pc' = "done"
    /\ UNCHANGED << dialogVars, config, models, decks, notes, runLocals,
                    raw_list, listed, lookups, last_pairs, last_body, ensured, written,
                    tokens >>

\* the handler returns to the event loop: its locals are gone
Return ==
    /\ pc \in {"done", "error", "invalid"}
    /\ pc' = "idle"
    /\ deck_name' = <<>>
    /\ limit' = DefaultLimit
    /\ batch_size' = DefaultBatch
    /\ vocab_list' = <<>>
    /\ i' = 0
    /\ cards' = <<>>
    /\ deck_id_anki' = 0
    /\ note_type' = <<>>
    /\ imported' = Unbound
    /\ skipped' = Unbound
    /\ pos' = 0
    /\ error' = ""
    /\ raw_list' = <<>>
    /\ listed' = 0
    /\ lookups' = <<>>
    /\ last_pairs' = <<>>
    /\ last_body' = EmptyMapping
    /\ ensured' = 0
    /\ written' = 0
    /\ refreshed' = FALSE
    /\ UNCHANGED << dialogVars, config, warning, models, decks, notes, tokens >>

Next ==
    \/ EditApiKey
    \/ EditAnkiDeck
    \/ SelectNoteType
    \/ LoadJpdbDecks
    \/ ImportCards
    \/ ListDeckVocabulary
    \/ LookupChunk
    \/ ResolveReturn
    \/ WriteRecord
    \/ Finish
    \/ Return

Spec == Init /\ [][Next]_vars

----------------------------------------------------------------------------
(* The loop over cards by itself: import_cards from line 269 on, entered with
   the deck loaded, the default Anki deck obtained, a note type of the
   collection found, and get_deck_cards having returned any sequence of
   records *)

InitWriting ==
    /\ models = {"Single", "Triple"}
    /\ note_type_combo = NoteTypeItems(models)
    /\ note_type_current \in models
    /\ api_key_input = <<" ", "key">>
    /\ anki_deck_input = DefaultDeckName
    /\ config = SavedConfig
    /\ jpdb_client = <<Strip(api_key_input)>>
    /\ tokens = {Bearer(jpdb_client)}
    /\ jpdb_deck_combo = ComboItems(<< <<7, "Core">> >>)
    /\ warning = "starting_import"
    /\ deck_name = Strip(anki_deck_input)
    /\ decks = DecksAfterId(<< <<"Default">> >>, deck_name)
    /\ deck_id_anki = DeckId(<< <<"Default">> >>, deck_name)
    /\ note_type = ByName(models, note_type_current)
    /\ notes = <<>>
    /\ cards \in SeqsUpTo(WritingRecords, MaxCards)
    /\ lookups = <<[chunk |-> 1, sent |-> 1, ok |-> TRUE, returned |-> Len(cards)]>>
    /\ listed = 1
    /\ ensured = 1
    /\ limit = DefaultLimit
    /\ batch_size = DefaultBatch
    /\ vocab_list = <<>>
    /\ i = 0
    /\ raw_list = <<>>
    /\ last_pairs = <<>>
    /\ last_body = EmptyMapping
    /\ imported = 0
    /\ skipped = 0
    /\ pos = 0
    /\ written = 0
    /\ error = ""
    /\ refreshed = FALSE
    /\ pc = "write"

NextWriting ==
    \/ WriteRecord
    \/ Finish
    \/ Return

SpecWriting == InitWriting /\ [][NextWriting]_vars

----------------------------------------------------------------------------
(* Properties *)

Last(s) == s[Len(s)]

RECURSIVE SumReturned(_)
SumReturned(calls) ==
    IF calls = <<>> THEN 0 ELSE Head(calls).returned + SumReturned(Tail(calls))

RECURSIVE SumSent(_)
SumSent(calls) ==
    IF calls = <<>> THEN 0 ELSE Head(calls).sent + SumSent(Tail(calls))

RECURSIVE Flatten(_)
Flatten(ss) == IF ss = <<>> THEN <<>> ELSE Head(ss) \o Flatten(Tail(ss))

NonEmptyEntries(list) == SelectSeq(list, LAMBDA e : Len(e) > 0)

\* the last lookup call of the run raised
LastLookupFailed == lookups # <<>> /\ ~Last(lookups).ok

\* no lookup response of the run returned more records than pairs were sent
Conformant == \A k \in 1..Len(lookups) : lookups[k].returned <= lookups[k].sent

\* the run was started with inputs the validation is about
InvalidInputs ==
    \/ Strip(anki_deck_input) = <<>>
    \/ ByName(models, note_type_current) = <<>>

\* C1: a run started with an empty target deck name or with a note type name
\* that is not in the collection issues no deck/list-vocabulary call and no
\* lookup-vocabulary call.
C1_NoRemoteCallOnInvalidInput ==
    (pc # "idle" /\ InvalidInputs) => (listed = 0 /\ lookups = <<>>)

\* C2: the lookup calls of a run are issued in increasing chunk order; a call
\* that failed is the last call of the run (never re-issued, no call for a
\* later chunk) and the run is then in the error state.
C2_LookupsInOrderAndFailureFinal ==
    /\ \A a, b \in 1..Len(lookups) : a < b => lookups[a].chunk < lookups[b].chunk
    /\ \A k \in 1..Len(lookups) : ~lookups[k].ok => k = Len(lookups)
    /\ LastLookupFailed => (pc = "error" /\ error = "RemoteError")

\* a lookup failed on the first chunk while a later chunk with pairs to send
\* remained
C2_Witness ==
    /\ pc = "error"
    /\ Len(lookups) = 1
    /\ ~lookups[1].ok
    /\ lookups[1].chunk = 1
    /\ i + batch_size < Len(vocab_list)
    /\ ValidBatch(Batch(vocab_list, i + batch_size, batch_size)) # <<>>

\* the records the run has counted, none while the counters are unassigned
Counted == IF imported = Unbound THEN 0 ELSE imported + skipped

\* C3 as claimed: when the lookup of chunk k >= 2 fails, the counters account
\* for exactly the records the earlier chunks returned.
C3_CountersCoverEarlierChunks ==
    (pc = "error" /\ LastLookupFailed /\ Last(lookups).chunk >= 2)
        => Counted = SumReturned(lookups)

\* C3 as amended: when a lookup fails, the counters are never assigned, no
\* record of any chunk is consumed and no note is written.
C3_FailedLookupCountsNothing ==
    LastLookupFailed =>
        /\ imported = Unbound
        /\ skipped = Unbound
        /\ pos = 0
        /\ written = 0
        /\ notes = <<>>

\* the lookup of the second chunk failed after the first chunk had returned
\* records
C3_Witness ==
    /\ pc = "error"
    /\ Len(lookups) = 2
    /\ lookups[1].ok
    /\ lookups[1].returned >= 1
    /\ ~lookups[2].ok
    /\ lookups[2].chunk = 2

\* C4 as claimed: whatever the service answers, get_deck_cards accumulates at
\* most min(len(list), limit) records.
C4_OutputWithinLimit ==
    pc = "lookup" => Len(cards) <= Min(Len(raw_list), limit)

\* C4 as amended: when no lookup response returns more records than pairs were
\* sent, get_deck_cards accumulates at most min(len(list), limit) records.
C4_OutputWithinLimitIfConformant ==
    (pc = "lookup" /\ Conformant) => Len(cards) <= Min(Len(raw_list), limit)

\* get_deck_cards is about to return as many records as the limit allows, the
\* list having been longer than the limit
C4_Witness ==
    /\ pc = "lookup"
    /\ i >= Len(vocab_list)
    /\ Conformant
    /\ limit < Len(raw_list)
    /\ Len(cards) = limit

\* 250 entries with one id each
Entries250 == [k \in 1..250 |-> <<k>>]
\* the sizes of the lists sent for them with the default batch size
Chunks250 == Chunks(Truncate(Entries250, DefaultLimit), 0, DefaultBatch)
PayloadSizes250 == [k \in 1..Len(Chunks250) |-> Len(ValidBatch(Chunks250[k]))]

\* C5: get_deck_cards keeps exactly the first min(len(list), limit) entries;
\* the chunks of its loop are consecutive, cover every retained entry exactly
\* once in the original order and hold between 1 and batch_size entries; the
\* calls issued so far sent the pairs of chunks of that partition; 250
\* one-id entries with batch size 100 are sent as 100, 100, 50.
C5_TruncationAndPartition ==
    /\ pc = "lookup" =>
          LET chunks == Chunks(vocab_list, 0, batch_size)
          IN  /\ Len(vocab_list) = Min(Len(raw_list), limit)
              /\ \A k \in 1..Len(vocab_list) : vocab_list[k] = raw_list[k]
              /\ Flatten(chunks) = vocab_list
              /\ \A c \in 1..Len(chunks) :
                    Len(chunks[c]) >= 1 /\ Len(chunks[c]) <= batch_size
              /\ i = batch_size * (i \div batch_size)
              /\ \A k \in 1..Len(lookups) :
                    /\ lookups[k].chunk \in 1..Len(chunks)
                    /\ lookups[k].sent = Len(NonEmptyEntries(chunks[lookups[k].chunk]))
    /\ PayloadSizes250 = <<100, 100, 50>>

\* two chunks of one entry each have been looked up in order
C5_Witness ==
    /\ pc = "lookup"
    /\ batch_size = 1
    /\ Len(vocab_list) = 2
    /\ Len(lookups) = 2
    /\ lookups[1].chunk = 1
    /\ lookups[2].chunk = 2
    /\ i >= Len(vocab_list)

\* a record that is None, empty, or has fewer than three sub-arrays
AbsentOrShort(card_data) == card_data.null \/ Len(card_data.arr) < 3

\* C6: for a record that is absent or has fewer than three sub-arrays the
\* writing step increments skipped by one, writes no note, raises no error
\* and goes on to the next record.
C6_AbsentOrShortIsSkipped ==
    [][(pc = "write" /\ pos < Len(cards) /\ AbsentOrShort(cards[pos + 1]))
          => /\ skipped' = skipped + 1
             /\ imported' = imported
             /\ notes' = notes
             /\ pos' = pos + 1
             /\ pc' = "write"]_vars

\* the entries of the chunk the latest lookup call was issued for
LastChunk ==
    SubSeq(vocab_list,
           (Last(lookups).chunk - 1) * batch_size + 1,
           Min(Last(lookups).chunk * batch_size, Len(vocab_list)))

\* C7: the list a lookup call sends holds, in order, one pair per non-empty
\* entry of its chunk: (id, id) for a one-element entry, the first two
\* elements for a longer one; empty entries are dropped, and a run that is
\* done has counted one record per record returned, which for conformant
\* responses is at most one per non-empty entry: a dropped entry is neither
\* imported nor skipped.
C7_IdPairNormalization ==
    /\ (pc \in {"lookup", "error"} /\ last_pairs # <<>>) =>
          LET entries == NonEmptyEntries(LastChunk)
          IN  /\ Len(last_pairs) = Len(entries)
              /\ \A k \in 1..Len(entries) :
                    /\ Len(last_pairs[k]) = 2
                    /\ last_pairs[k][1] = entries[k][1]
                    /\ Len(entries[k]) = 1 => last_pairs[k][2] = entries[k][1]
                    /\ Len(entries[k]) >= 2 => last_pairs[k][2] = entries[k][2]
    /\ (pc = "lookup" /\ i >= Len(vocab_list)) =>
          SumSent(lookups) = Len(NonEmptyEntries(vocab_list))
    /\ pc = "done" => imported + skipped = SumReturned(lookups)
    /\ (pc = "done" /\ Conformant) => imported + skipped <= SumSent(lookups)

\* a chunk of an empty entry and a three-element entry was sent as one pair
C7_Witness ==
    /\ pc = "lookup"
    /\ vocab_list = << <<>>, <<5, 9, 99>> >>
    /\ Len(lookups) = 1
    /\ last_pairs = << <<5, 9>> >>

\* the run stopped on an exception raised while a record was being written
FailedWriting == pc = "error" /\ error \in {"StoreError", "IndexError"}

\* C8: when writing a record raises, the run stops in the error state with
\* the error reported: the record and those after it are not consumed, the
\* notes written before it stay in the collection, and nothing is written
\* until the handler returns.
C8_WriteErrorStopsRunKeepsNotes ==
    /\ [](FailedWriting =>
             /\ warning = "import_failed"
             /\ pos < Len(cards)
             /\ pos = imported + skipped
             /\ Len(notes) = imported
             /\ written = imported
             /\ ~refreshed)
    /\ [][(pc = "write" /\ pc' = "error") =>
             (notes' = notes /\ pos' = pos /\ imported' = imported
                /\ skipped' = skipped)]_vars
    /\ [][pc = "error" => (pc' = "idle" /\ notes' = notes)]_vars

\* the collection rejected a note after one note had been written and with a
\* record still to come
C8_Witness ==
    /\ pc = "error"
    /\ error = "StoreError"
    /\ imported >= 1
    /\ Len(notes) = imported
    /\ pos + 1 < Len(cards)

\* C9: while the loop over the records runs and when it is done, both counters
\* are assigned, imported + skipped is the number of records consumed, the
\* notes this run wrote number imported, a run that is done has consumed every
\* record, and consuming a record adds exactly 1 to exactly one counter.
C9_CountersAccountForRecords ==
    /\ [](pc \in {"write", "done"} =>
             /\ imported >= 0
             /\ skipped >= 0
             /\ imported + skipped = pos
             /\ written = imported
             /\ Len(notes) = imported
             /\ pos <= Len(cards))
    /\ [](pc = "done" => imported + skipped = Len(cards))
    /\ [][(pc = "lookup" /\ pc' = "write") =>
             (imported' = 0 /\ skipped' = 0 /\ pos' = 0)]_vars
    /\ [][(pc = "write" /\ pos' = pos + 1) =>
             \/ imported' = imported + 1 /\ skipped' = skipped
             \/ imported' = imported /\ skipped' = skipped + 1]_vars

\* a run is done having imported a record and skipped another
C9_Witness ==
    /\ pc = "done"
    /\ imported >= 1
    /\ skipped >= 1
    /\ imported + skipped = Len(cards)

\* the records of cards the loop has written a note for, in order
WrittenRecords ==
    SelectSeq(SubSeq(cards, 1, pos),
              LAMBDA c : Truthy(c) /\ Len(c.arr) >= 3 /\ c.arr[1] # <<>>)

\* what the notes of the records of the model hold: spelling, front, meanings
ExpectedSpelling(c) ==
    CASE c = RecFull -> "tabe"
      [] c = RecKana -> "kana"
      [] c = RecNoReading -> "neko"
      [] c = RecBlankReading -> "inu"
ExpectedFront(c) ==
    CASE c = RecFull -> "tabe (taberu)"
      [] c = RecKana -> "kana"
      [] c = RecNoReading -> "neko"
      [] c = RecBlankReading -> "inu"
ExpectedMeaning(c) ==
    CASE c = RecFull -> "to eat, to dine"
      [] c = RecKana -> "kana script"
      [] c = RecNoReading -> "cat"
      [] c = RecBlankReading -> "dog"

\* C10: the note written for a record holds, for a note type with one field,
\* the bare spelling and nothing else; for a note type with two or more
\* fields, the front in field 0, the comma-joined meanings in field 1 and
\* every further field as the note type created it (empty).
C10_FieldLayout ==
    pc \in {"write", "done", "error"} =>
        /\ Len(notes) = Len(WrittenRecords)
        /\ \A k \in 1..Len(notes) :
              LET fields == notes[k].fields
                  c == WrittenRecords[k]
              IN  /\ Len(fields) = FieldCount(note_type[1])
                  /\ Len(fields) = 1 => fields = <<ExpectedSpelling(c)>>
                  /\ Len(fields) >= 2 =>
                        /\ fields[1] = ExpectedFront(c)
                        /\ fields[2] = ExpectedMeaning(c)
                        /\ \A f \in 3..Len(fields) : fields[f] = ""

\* a note of a three-field note type was written for a record with a reading
\* and two meanings
C10_Witness ==
    /\ pc = "done"
    /\ note_type = <<"Triple">>
    /\ Len(notes) >= 1
    /\ notes[1].fields = <<"tabe (taberu)", "to eat, to dine", "">>

\* the front the note of a record shall have: the first spelling, followed
\* by the first reading in parentheses exactly when the reading sequence is
\* non-empty, its first element is non-empty and differs from the first
\* spelling
ComposedFront(c) ==
    LET spellings == c.arr[1]
        readings == c.arr[2]
    IN  IF readings # <<>> /\ readings[1] # "" /\ readings[1] # spellings[1]
        THEN spellings[1] \o " (" \o readings[1] \o ")"
        ELSE spellings[1]

\* C11: the front of the note written for a record with a non-empty spelling
\* sequence (field 0 of a note type with two or more fields) is the first
\* spelling followed by " (" + first reading + ")" exactly when the reading
\* sequence is non-empty, its first element is non-empty and differs from the
\* first spelling; otherwise it is the bare first spelling. For the records
\* of the model: "tabe (taberu)", "kana", "neko", "inu".
C11_FrontComposition ==
    /\ pc \in {"write", "done", "error"} =>
          /\ Len(notes) = Len(WrittenRecords)
          /\ \A k \in 1..Len(notes) :
                Len(notes[k].fields) >= 2 =>
                   notes[k].fields[1] = ComposedFront(WrittenRecords[k])
    /\ ComposedFront(RecFull) = "tabe (taberu)"
    /\ ComposedFront(RecKana) = "kana"
    /\ ComposedFront(RecNoReading) = "neko"
    /\ ComposedFront(RecBlankReading) = "inu"

\* notes of a three-field note type were written for a record without
\* readings, a record whose first reading is empty and a record whose reading
\* differs from its spelling
C11_Witness ==
    /\ pc = "done"
    /\ cards = <<RecNoReading, RecBlankReading, RecFull>>
    /\ Len(notes) = 3
    /\ notes[1].fields[1] = "neko"
    /\ notes[2].fields[1] = "inu"
    /\ notes[3].fields[1] = "tabe (taberu)"
    /\ Len(notes[3].fields) = 3

\* C12: the collection is reset (mw.col.reset, mw.reset) only by a run that
\* is done, in the step that follows the consumption of the whole sequence of
\* records, after the last note of the run was written: no note is written
\* once it is signalled; a run in the error state or ended by a validation
\* failure has not signalled it and does not before it returns.
C12_RefreshOnlyWhenDone ==
    /\ [](refreshed =>
             /\ pc = "done"
             /\ pos = Len(cards)
             /\ written = imported
             /\ Len(notes) = written)
    /\ [](pc \in {"error", "invalid"} => ~refreshed)
    /\ [][(~refreshed /\ refreshed') =>
             (pc = "write" /\ pos = Len(cards) /\ notes' = notes)]_vars
    /\ [][refreshed => (notes' = notes /\ pc' = "idle")]_vars
    /\ [][(pc \in {"error", "invalid"}) => ~refreshed']_vars

\* the reset was signalled by a run that wrote two notes and skipped a record
C12_Witness ==
    /\ pc = "done"
    /\ refreshed
    /\ written = 2
    /\ skipped = 1
    /\ pos = Len(cards)

\* the notes the run has written
RunNotes == SubSeq(notes, Len(notes) - written + 1, Len(notes))

\* C13: mw.col.decks.id is called at most once per run, before the first
\* note of the run is written; the handle it returned is that of the deck
\* named by the run, it does not change while the records are written, and
\* every note the run writes is assigned to it.
C13_DeckEnsuredOnceBeforeWrites ==
    /\ [](ensured <= 1)
    /\ [](written > 0 => ensured = 1)
    /\ [](ensured = 1 =>
             /\ deck_id_anki \in DOMAIN decks
             /\ decks[deck_id_anki] = deck_name
             /\ \A k \in 1..Len(RunNotes) : RunNotes[k].did = deck_id_anki)
    /\ [][ensured' = ensured + 1 =>
             (pc = "lookup" /\ written = 0 /\ notes' = notes)]_vars
    /\ [][pc = "write" =>
             /\ deck_id_anki' = deck_id_anki
             /\ decks' = decks
             /\ ensured' = ensured]_vars

\* two notes were written into the deck the run created
C13_Witness ==
    /\ pc = "done"
    /\ ensured = 1
    /\ written = 2
    /\ deck_id_anki = 2
    /\ decks[2] = DefaultDeckName
    /\ notes[1].did = 2
    /\ notes[2].did = 2

\* ceil(n / b)
CeilDiv(n, b) == (n + b - 1) \div b

\* the loop of get_deck_cards has ended without an exception
Resolved == pc = "lookup" /\ i >= Len(vocab_list)

\* the lookup calls issued for chunk c
CallsFor(c) == {k \in 1..Len(lookups) : lookups[k].chunk = c}

\* C14 as claimed: a resolution that succeeds over n retained entries has
\* issued exactly ceil(n / batch_size) lookup calls, one per chunk, whatever
\* the entries hold.
C14_OneCallPerChunk ==
    Resolved =>
        /\ Len(lookups) = CeilDiv(Len(vocab_list), batch_size)
        /\ \A c \in 1..CeilDiv(Len(vocab_list), batch_size) :
              Cardinality(CallsFor(c)) = 1

\* C14 as amended: while get_deck_cards runs, exactly one lookup call has
\* been issued for every chunk already passed that holds a non-empty entry,
\* and none for a chunk whose entries are all empty or that is still to
\* come; a resolution that succeeds over n retained entries has issued as
\* many calls as there are chunks with a non-empty entry, at most
\* ceil(n / batch_size).
C14_OneCallPerNonEmptyChunk ==
    pc = "lookup" =>
        LET chunks == Chunks(vocab_list, 0, batch_size)
            passed == i \div batch_size
            sending == {c \in 1..Len(chunks) : NonEmptyEntries(chunks[c]) # <<>>}
        IN  /\ Len(chunks) = CeilDiv(Len(vocab_list), batch_size)
            /\ \A c \in 1..Len(chunks) :
                  Cardinality(CallsFor(c)) =
                      IF c \in sending /\ c <= passed THEN 1 ELSE 0
            /\ \A k \in 1..Len(lookups) : lookups[k].chunk \in sending
            /\ Resolved => Len(lookups) = Cardinality(sending)
            /\ Len(lookups) <= CeilDiv(Len(vocab_list), batch_size)

\* a resolution over two chunks, the first holding only an empty entry, has
\* succeeded with a single call, for the second chunk
C14_Witness ==
    /\ Resolved
    /\ batch_size = 1
    /\ vocab_list = << <<>>, <<5>> >>
    /\ Len(lookups) = 1
    /\ lookups[1].chunk = 2

\* C15: the step by which a run ends with a validation failure (no deck
\* loaded, empty Anki deck name, unknown note type) changes neither the decks
\* nor the notes of the collection: no deck is created, no note is written.
C15_ValidationFailureLeavesStore ==
    [][pc' = "invalid" => (decks' = decks /\ notes' = notes)]_vars

\* the listing call or a lookup call of the run raised
RemoteFailed ==
    \/ pc = "error" /\ error = "RemoteError"
    \/ \E k \in 1..Len(lookups) : ~lookups[k].ok

\* C16: when the listing call or a lookup call fails, the run is in the
\* error state with nothing returned by get_deck_cards: mw.col.decks.id has
\* not been called, no record has been consumed, no note has been written,
\* whatever earlier lookups returned; and the only step left is the return of
\* the handler, which changes neither decks nor notes.
C16_ResolutionAllOrNothing ==
    /\ [](RemoteFailed =>
             /\ pc = "error"
             /\ error = "RemoteError"
             /\ ensured = 0
             /\ imported = Unbound
             /\ skipped = Unbound
             /\ pos = 0
             /\ written = 0)
    /\ [][RemoteFailed =>
             (pc' = "idle" /\ decks' = decks /\ notes' = notes)]_vars

\* the lookup of the second chunk failed after the first had returned two
\* records; the deck of the run does not exist
C16_Witness ==
    /\ pc = "error"
    /\ Len(lookups) = 2
    /\ lookups[1].ok
    /\ Len(cards) = 2
    /\ ~lookups[2].ok
    /\ ensured = 0
    /\ DeckIndex(decks, deck_name) = 0
    /\ notes = <<>>

\* the vocabulary_info array of a response body, empty when the key is absent
ResponseInfo(body) ==
    IF "vocabulary_info" \in DOMAIN body THEN body.vocabulary_info ELSE <<>>

\* C17: each successful lookup call appends the vocabulary_info array of its
\* response, in the response's order, to the records accumulated so far
\* (nothing when the key is absent); the calls are issued in chunk order, a
\* chunk passed over without a call adds nothing; the sequence handed to the
\* loop over the records is the accumulated one, and the loop consumes it
\* one record at a time from the first to the last, never changing it.
C17_ConcatenationInChunkOrder ==
    /\ [](pc = "lookup" =>
             /\ pos = 0
             /\ Len(cards) = SumReturned(lookups)
             /\ \A a, b \in 1..Len(lookups) :
                   a < b => lookups[a].chunk < lookups[b].chunk)
    /\ [](pc = "done" => pos = Len(cards))
    /\ [][(pc = "lookup" /\ Len(lookups') = Len(lookups) + 1
              /\ Last(lookups').ok)
            => cards' = cards \o ResponseInfo(last_body')]_vars
    /\ [][(pc = "lookup" /\ lookups' = lookups) => cards' = cards]_vars
    /\ [][pc = "write" =>
             (cards' = cards /\ (pos' = pos \/ pos' = pos + 1))]_vars

\* the second of two lookup calls returned two records, appended in their
\* order after the record of the first
C17_Witness ==
    /\ pc = "lookup"
    /\ Len(lookups) = 2
    /\ lookups[1].returned = 1
    /\ ResponseInfo(last_body) = <<RecNoSpelling, JNull>>
    /\ cards = <<RecFull, RecNoSpelling, JNull>>

\* C18: every lookup call of a run sent at least one pair; while
\* get_deck_cards runs, and when a lookup has failed, every call sent at
\* most batch_size pairs, the list sent by the latest call holds only pairs
\* of exactly two elements, and the calls together sent at most
\* min(len(list), limit) pairs.
C18_LookupPayloadBounds ==
    /\ \A k \in 1..Len(lookups) : lookups[k].sent >= 1
    /\ (pc = "lookup" \/ LastLookupFailed) =>
          /\ \A k \in 1..Len(lookups) : lookups[k].sent <= batch_size
          /\ lookups # <<>> =>
                /\ Len(last_pairs) = Last(lookups).sent
                /\ \A k \in 1..Len(last_pairs) : Len(last_pairs[k]) = 2
          /\ SumSent(lookups) <= Min(Len(raw_list), limit)

\* a list of two entries cut to one by the limit was sent as a single pair
C18_Witness ==
    /\ Resolved
    /\ limit = 1
    /\ raw_list = << <<5, 9, 99>>, <<5>> >>
    /\ Len(lookups) = 1
    /\ SumSent(lookups) = 1
    /\ last_pairs = << <<5, 9>> >>

\* C19: every request issued so far carried a non-empty bearer token; the
\* JPDB deck combo has items only while a client with a non-empty key
\* exists; import_cards goes on to its remote calls only with a non-empty
\* combo and that client, and has them carry its key; the client is replaced
\* only by load_jpdb_decks, with the stripped text of the API key field.
C19_TokenNonEmptyClientExists ==
    /\ [](\A t \in tokens : t # <<>>)
    /\ [](jpdb_deck_combo # <<>> =>
             (jpdb_client # <<>> /\ Bearer(jpdb_client) # <<>>))
    /\ [](pc \in {"list", "lookup"} =>
             /\ jpdb_deck_combo # <<>>
             /\ jpdb_client # <<>>
             /\ (listed > 0 => Bearer(jpdb_client) \in tokens))
    /\ [][jpdb_client' # jpdb_client =>
             /\ pc = "idle"
             /\ Strip(api_key_input) # <<>>
             /\ jpdb_client' = <<Strip(api_key_input)>>]_vars

\* an import started after the API key field had been emptied issues its
\* lookups with the key of the refresh that loaded the decks
C19_Witness ==
    /\ pc = "lookup"
    /\ api_key_input = <<>>
    /\ lookups # <<>>
    /\ jpdb_client = << <<"key">> >>
    /\ tokens = {<<"key">>}

====
